---- MODULE Spec2Model ----
(***************************************************************************)
(* Model of the axum-tracing service: the layered error taxonomy           *)
(* (src/src/error.rs, src/src/routes.rs) and the telemetry middleware      *)
(* stack built by add_telemetry (src/src/logger.rs).                       *)
(*                                                                         *)
(* Conventions                                                             *)
(*   Option<T>      a sequence of length 0 (None) or 1 (Some(v)).          *)
(*   header value   a sequence of bytes (HeaderValue is a byte string).    *)
(*   formatted text a sequence of text pieces, one per piece written by    *)
(*                  the format string ("{}: {}\n\n{:?}" gives the status   *)
(*                  line, ": ", the display string, "\n\n", the dump).     *)
(*   error value    the source() chain as a sequence of node names,        *)
(*                  outermost error first, root cause last.                *)
(***************************************************************************)
EXTENDS Integers, Sequences, FiniteSets, TLC

\* ------------------------------------------------------------------ bounds
NumReqs == 2
NumUuids == 2
MaxWraps == 4

Reqs == 1..NumReqs
UuidSpace == 1..NumUuids

None == <<>>
Some(v) == <<v>>
IsSome(o) == Len(o) = 1
Get(o) == o[1]

\* ------------------------------------------------------ error taxonomy
\* thiserror's #[error("...")] strings, BadError's Display, and the message
\* of the io::Error built in bare_metal.
Display(node) ==
  CASE node = "ApiError"    -> "Route Level Error"
    [] node = "TopError"    -> "Top Level Error"
    [] node = "MiddleError" -> "Mid-Level Error"
    [] node = "BottomError" -> "Bottom Level Error"
    [] node = "BadError"    -> "Terrible IO Error - Server is legit on fire"
    [] node = "IoError"     -> "Dinosaurs Mating"

\* Kind::UnexpectedError(eyre!(err)): err implements std::error::Error, so
\* the Report keeps err itself and, through source(), everything below it.
Wrap(kind, err) == <<kind>> \o err

\* Report::chain() of the Report held by e: the wrapped error first, then
\* each source() in turn.
ReportChain(e) == Tail(e)

\* for cause in e.chain() { writeln!(f, "Caused by:\n\t{}", cause)?; }
RECURSIVE error_chain_fmt(_)
error_chain_fmt(chain) ==
  IF chain = <<>> THEN <<>>
  ELSE <<"Caused by:\n\t", Display(Head(chain)), "\n">> \o error_chain_fmt(Tail(chain))

\* impl Debug for ApiError / TopError / MiddleError / BottomError.
DebugFmt(e) ==
  CASE Head(e) \in {"ApiError", "TopError", "MiddleError"} -> error_chain_fmt(ReportChain(e))
    [] Head(e) = "BottomError" -> <<"Unexpected: ", Display(e[2])>>

DisplayFmtTransparent(e) == <<Display(e[2])>>

\* Display of an error value: the outermost node's message.
DisplayFmt(e) == <<Display(Head(e))>>

\* routes.rs call chain.
bare_metal == <<"BadError", "IoError">>
bottom_error == Wrap("BottomError", bare_metal)
middle_error == Wrap("MiddleError", bottom_error)
top_error == Wrap("TopError", middle_error)
handler_error == Wrap("ApiError", top_error)

\* The opaque presentation kind and its handler (GET /error/opaque): the same
\* call chain under an error whose display is generic and whose {:?} is the
\* chain dump.
handler_error_opaque == Wrap("OpaqueApiError", top_error)
OpaqueDisplayFmt(e) == <<"internal error, no details">>
OpaqueDebugFmt(e) == error_chain_fmt(ReportChain(e))

\* ------------------------------------------------- presentation errors
\* Display for StatusCode: the code and its canonical reason.
StatusLine(status) ==
  CASE status = 500 -> "500 Internal Server Error"

NoExt == [api |-> None, opaque |-> None]

\* (status, body).into_response(): no header of the stack's, no extension.
PlainResponse(status, body) ==
  [status |-> status, body |-> body, hdr |-> None, rid |-> None, ext |-> NoExt]

IntoResponseApiNoInsert(self) ==
  LET status == 500
      body == <<StatusLine(status), ": ">> \o DisplayFmt(self) \o <<"\n\n">> \o DebugFmt(self)
  IN  PlainResponse(status, body)

\* impl IntoResponse for ApiError.
IntoResponseApi(self) ==
  LET status == 500
      body == <<StatusLine(status), ": ">> \o DisplayFmt(self) \o <<"\n\n">> \o DebugFmt(self)
      response == PlainResponse(status, body)
  IN  [response EXCEPT !.ext.api = Some(self)]

\* The opaque presentation kind: a generic body, the error still attached.
IntoResponseOpaque(self) ==
  LET status == 500
      body == OpaqueDisplayFmt(self)
      response == PlainResponse(status, body)
  IN  [response EXCEPT !.ext.opaque = Some(self)]

\* ------------------------------------------------------------- routes
Paths == {"/", "/error", "/error/opaque", "/nope"}

\* MatchedPath of the request, if a route matched.
MatchedPath(path) == IF path \in {"/", "/error", "/error/opaque"} THEN Some(path) ELSE None

handler == PlainResponse(200, <<"<h1>Hello, World!</h1>">>)
fallback(path) == PlainResponse(404, <<"Cannot find ", path>>)

\* Result<(), ApiError>::into_response of what the two failing handlers
\* return.
handler_error_response == IntoResponseApi(handler_error)
handler_error_opaque_response == IntoResponseOpaque(handler_error_opaque)

\* The router built in main: the handler of the matched route, or fallback.
Router(request) ==
  CASE request.path = "/"             -> handler
    [] request.path = "/error"        -> handler_error_response
    [] request.path = "/error/opaque" -> handler_error_opaque_response
    [] OTHER                          -> fallback(request.path)

\* ------------------------------------------------------- request ids
\* "abc-123", and a value with an obs-text byte ("caf\xE9"): a legal
\* HeaderValue for which to_str() fails.
AbcHeader == <<97, 98, 99, 45, 49, 50, 51>>
OpaqueBytesHeader == <<99, 97, 102, 233>>
InboundHeaders == {None, Some(AbcHeader), Some(OpaqueBytesHeader)}

\* HeaderValue::to_str: every byte is visible ASCII or a tab.
ToStrOk(v) == \A i \in DOMAIN v : v[i] = 9 \/ (v[i] >= 32 /\ v[i] < 127)

\* Uuid::to_string() of the u-th value of the v4 space, its 36 characters
\* abbreviated to a leading hex digit, a hyphen and the version digit.
Hyphenated(u) == <<48 + u, 45, 52>>

\* ------------------------------------------------------------- state
VARIABLES pc, req, inHdr, genId, span, resp, wrapped, dump

vars == <<pc, req, inHdr, genId, span, resp, wrapped, dump>>
reqVars == <<pc, req, inHdr, genId, span, resp>>
chainVars == <<wrapped, dump>>

NoRequest == [hdr |-> None, rid |-> None, path |-> ""]

Init ==
  /\ pc = [r \in Reqs |-> "idle"]
  /\ req = [r \in Reqs |-> NoRequest]
  /\ inHdr = [r \in Reqs |-> None]
  /\ genId = [r \in Reqs |-> None]
  /\ span = [r \in Reqs |-> None]
  /\ resp = [r \in Reqs |-> None]
  /\ wrapped = bare_metal
  /\ dump = <<>>

MakeRequestEmpty(u) == <<>>

\* MakeRequestUuid::make_request_id: a v4 (random) uuid, as a header value.
MakeRequestUuid(u) == Hyphenated(u)

\* SetRequestIdLayer(x-request-id, MakeRequestUuid), the outermost layer: a
\* request for path p enters the stack with header h (or none). An existing
\* header is kept and becomes the RequestId extension; otherwise a uuid is
\* drawn and set as both.
SetRequestId(r, h, p) ==
  /\ pc[r] = "idle"
  /\ inHdr' = [inHdr EXCEPT ![r] = h]
  /\ IF IsSome(h)
       THEN /\ req' = [req EXCEPT ![r] = [hdr |-> h, rid |-> h, path |-> p]]
            /\ genId' = genId
       ELSE \E u \in UuidSpace :
              /\ req' = [req EXCEPT ![r] = [hdr |-> Some(MakeRequestUuid(u)),
                                            rid |-> Some(MakeRequestUuid(u)),
                                            path |-> p]]
              /\ genId' = [genId EXCEPT ![r] = Some(u)]
  /\ pc' = [pc EXCEPT ![r] = "id_set"]
  /\ UNCHANGED <<span, resp, chainVars>>

\* RequestId extension -> header_value().to_str().ok(), else "".
RequestIdField(request) ==
  IF IsSome(request.rid) /\ ToStrOk(Get(request.rid)) THEN Get(request.rid) ELSE <<>>

\* TraceLayer::make_span_with: the span's request-derived fields are set,
\* the four completion fields are tracing::field::Empty (None here); recs
\* counts the span.record calls made on each of them.
NewSpan(request) ==
  [http_route        |-> IF IsSome(MatchedPath(request.path))
                           THEN Get(MatchedPath(request.path)) ELSE "fallback",
   http_target       |-> request.path,
   request_id        |-> RequestIdField(request),
   http_status_code  |-> None,
   otel_status_code  |-> None,
   exception_message |-> None,
   exception_details |-> None,
   recs |-> [f \in {"http.status_code", "otel.status_code",
                    "exception.message", "exception.details"} |-> 0]]

MakeSpanUnwrap(r) ==
  /\ pc[r] = "id_set"
  /\ IF IsSome(req[r].rid) /\ ~ToStrOk(Get(req[r].rid))
       THEN /\ pc' = [pc EXCEPT ![r] = "failed"]
            /\ span' = span
       ELSE /\ pc' = [pc EXCEPT ![r] = "span_open"]
            /\ span' = [span EXCEPT ![r] = Some(NewSpan(req[r]))]
  /\ UNCHANGED <<req, inHdr, genId, resp, chainVars>>

\* make_span_with runs when the request reaches TraceLayer, after
\* SetRequestIdLayer (the outer layer) has passed it on.
MakeSpan(r) ==
  /\ pc[r] = "id_set"
  /\ span' = [span EXCEPT ![r] = Some(NewSpan(req[r]))]
  /\ pc' = [pc EXCEPT ![r] = "span_open"]
  /\ UNCHANGED <<req, inHdr, genId, resp, chainVars>>

\* The wrapped router runs the matched handler and renders its result.
Handle(r) ==
  /\ pc[r] = "span_open"
  /\ resp' = [resp EXCEPT ![r] = Some(Router(req[r]))]
  /\ pc' = [pc EXCEPT ![r] = "handled"]
  /\ UNCHANGED <<req, inHdr, genId, span, chainVars>>

PropagateResponseDrop(request, response) == response

\* PropagateRequestIdLayer(x-request-id): the request's header value (read
\* when the request passed, after SetRequestId) is copied onto a response
\* that has no such header; a response that has one keeps it.
PropagateResponse(request, response) ==
  IF IsSome(response.hdr)
    THEN [response EXCEPT !.rid = IF IsSome(@) THEN @ ELSE response.hdr]
    ELSE IF IsSome(request.hdr)
      THEN [response EXCEPT !.hdr = request.hdr, !.rid = request.hdr]
      ELSE response

Propagate(r) ==
  /\ pc[r] = "handled"
  /\ resp' = [resp EXCEPT ![r] = Some(PropagateResponse(req[r], Get(resp[r])))]
  /\ pc' = [pc EXCEPT ![r] = "propagated"]
  /\ UNCHANGED <<req, inHdr, genId, span, chainVars>>

\* Span::record(field, value).
SpanRecord(s, field, value) ==
  CASE field = "http.status_code" ->
         [s EXCEPT !.http_status_code = Some(value), !.recs[field] = @ + 1]
    [] field = "otel.status_code" ->
         [s EXCEPT !.otel_status_code = Some(value), !.recs[field] = @ + 1]
    [] field = "exception.message" ->
         [s EXCEPT !.exception_message = Some(value), !.recs[field] = @ + 1]
    [] field = "exception.details" ->
         [s EXCEPT !.exception_details = Some(value), !.recs[field] = @ + 1]

\* StatusCode::is_success / is_client_error / is_server_error.
is_success(code) == 300 > code /\ code >= 200
is_client_error(code) == 500 > code /\ code >= 400
is_server_error(code) == 600 > code /\ code >= 500

PreRenderApiOnly(response) ==
  IF IsSome(response.ext.api)
    THEN <<DisplayFmt(Get(response.ext.api)), DebugFmt(Get(response.ext.api))>>
    ELSE <<<<>>, <<>>>>

\* The two "if let Some(response_error)" blocks of on_response: the pair
\* <<display, debug>> pre-rendered from the response's extensions.
PreRender(response) ==
  LET d0 == <<<<>>, <<>>>>
      d1 == IF IsSome(response.ext.api)
              THEN <<DisplayFmt(Get(response.ext.api)), DebugFmt(Get(response.ext.api))>>
              ELSE d0
  IN  IF IsSome(response.ext.opaque)
        THEN <<OpaqueDisplayFmt(Get(response.ext.opaque)),
               OpaqueDebugFmt(Get(response.ext.opaque))>>
        ELSE d1

\* 2xx arm: both exception fields are cleared.
BranchSuccessOutcomeOnly(s1) == SpanRecord(s1, "otel.status_code", "OK")
BranchSuccess(s1) ==
  SpanRecord(SpanRecord(SpanRecord(s1,
    "exception.message", <<>>),
    "exception.details", <<>>),
    "otel.status_code", "OK")

\* 4xx arm.
BranchClientAsError(s1, display, debug) ==
  SpanRecord(SpanRecord(SpanRecord(s1,
    "exception.message", display),
    "exception.details", debug),
    "otel.status_code", "ERROR")
BranchClient(s1, display, debug) ==
  SpanRecord(SpanRecord(SpanRecord(s1,
    "exception.message", display),
    "exception.details", debug),
    "otel.status_code", "OK")

\* 5xx arm.
BranchServer(s1, display, debug) ==
  SpanRecord(SpanRecord(SpanRecord(s1,
    "exception.message", display),
    "exception.details", debug),
    "otel.status_code", "ERROR")

\* Any other code.
BranchOtherDisplay(s1, display, debug) ==
  SpanRecord(SpanRecord(SpanRecord(s1,
    "exception.message", display),
    "exception.details", debug),
    "otel.status_code", "ERROR")
BranchOther(s1, display, debug) ==
  SpanRecord(SpanRecord(SpanRecord(s1,
    "exception.message", <<"Unexpected Error">>),
    "exception.details", debug),
    "otel.status_code", "ERROR")

\* on_response: the two strings are pre-rendered, the status code is
\* recorded, then the first matching arm of the match on the status runs.
on_response(response, s) ==
  LET display == PreRender(response)[1]
      debug == PreRender(response)[2]
      code == response.status
      s1 == SpanRecord(s, "http.status_code", code)
  IN  CASE is_success(code) -> BranchSuccess(s1)
        [] ~is_success(code) /\ is_client_error(code) -> BranchClient(s1, display, debug)
        [] ~is_success(code) /\ ~is_client_error(code) /\ is_server_error(code) ->
             BranchServer(s1, display, debug)
        [] OTHER -> BranchOther(s1, display, debug)

\* The completion hook runs on the response leaving the router; the response
\* then passes SetRequestIdLayer unchanged and leaves the stack.
OnResponse(r) ==
  /\ pc[r] = "propagated"
  /\ span' = [span EXCEPT ![r] = Some(on_response(Get(resp[r]), Get(span[r])))]
  /\ pc' = [pc EXCEPT ![r] = "recorded"]
  /\ UNCHANGED <<req, inHdr, genId, resp, chainVars>>

Next ==
  \E r \in Reqs :
    \/ \E h \in InboundHeaders, p \in Paths : SetRequestId(r, h, p)
    \/ MakeSpan(r)
    \/ Handle(r)
    \/ Propagate(r)
    \/ OnResponse(r)

Spec == Init /\ [][Next]_vars

\* ---------------------------------------------- add_telemetry(any Router)
\* add_telemetry wraps whatever Router it is given: a router may answer
\* with any status, with or without an error in the response extensions.
StatusCodes == {100, 101, 199, 200, 204, 299, 300, 304, 399, 400, 404, 499,
                500, 503, 599, 600, 999}
Extensions == {NoExt,
               [api |-> Some(handler_error), opaque |-> None],
               [api |-> None, opaque |-> Some(handler_error_opaque)]}

AnyRouter(r) ==
  /\ pc[r] = "span_open"
  /\ \E status \in StatusCodes, ext \in Extensions :
       resp' = [resp EXCEPT ![r] = Some([PlainResponse(status, <<>>) EXCEPT !.ext = ext])]
  /\ pc' = [pc EXCEPT ![r] = "handled"]
  /\ UNCHANGED <<req, inHdr, genId, span, chainVars>>

HookReq == CHOOSE r \in Reqs : \A q \in Reqs : r <= q

NextHook ==
  \/ \E h \in InboundHeaders, p \in Paths : SetRequestId(HookReq, h, p)
  \/ MakeSpan(HookReq)
  \/ Handle(HookReq)
  \/ AnyRouter(HookReq)
  \/ Propagate(HookReq)
  \/ OnResponse(HookReq)

SpecHook == Init /\ [][NextHook]_vars

\* ------------------------------------------------------ layer wrapping
Kinds == {"BottomError", "MiddleError", "TopError", "ApiError"}

NumWraps == Len(wrapped) - Len(bare_metal)

\* One map_err(|err| Kind::UnexpectedError(eyre!(err))) on the way up,
\* then {:?} of the error it returns.
WrapStep(kind) ==
  /\ NumWraps < MaxWraps
  /\ wrapped' = Wrap(kind, wrapped)
  /\ dump' = DebugFmt(wrapped')
  /\ UNCHANGED reqVars

NextChain == \E kind \in Kinds : WrapStep(kind)

SpecChain == Init /\ [][NextChain]_vars

\* ============================================================ properties
Contains(text, piece) == \E i \in DOMAIN text : text[i] = piece
Entered(r) == pc[r] # "idle"
Answered(r) == pc[r] \in {"handled", "propagated", "recorded"}
Malformed(h) == IsSome(h) /\ ~ToStrOk(Get(h))

\* C1: once the response has passed PropagateRequestIdLayer it carries an
\* x-request-id header equal to the identifier associated with the request
\* (its RequestId), and a header the request arrived with comes back
\* byte for byte.
C1_ResponseCarriesRequestId ==
  \A r \in Reqs :
    pc[r] \in {"propagated", "recorded"} =>
      /\ IsSome(Get(resp[r]).hdr)
      /\ Get(resp[r]).hdr = req[r].rid
      /\ (IsSome(inHdr[r]) => Get(resp[r]).hdr = inHdr[r])

C1_Witness ==
  \E r \in Reqs :
    /\ pc[r] = "recorded"
    /\ inHdr[r] = Some(AbcHeader)
    /\ Get(resp[r]).hdr = Some(AbcHeader)

FullChain == <<"TopError", "MiddleError", "BottomError", "BadError", "IoError">>
FullDump ==
  <<"Caused by:\n\t", "Top Level Error", "\n",
    "Caused by:\n\t", "Mid-Level Error", "\n",
    "Caused by:\n\t", "Bottom Level Error", "\n",
    "Caused by:\n\t", "Terrible IO Error - Server is legit on fire", "\n",
    "Caused by:\n\t", "Dinosaurs Mating", "\n">>

\* C2: the response rendered from a failed handler (GET /error: ApiError;
\* GET /error/opaque: the opaque kind) has status 500 and holds the error
\* value in its extensions with every cause of the chain, and the
\* completion hook pre-renders that value into exception.details.
C2_ErrorAttached ==
  \A r \in Reqs :
    /\ (req[r].path = "/error" /\ Answered(r)) =>
         /\ Get(resp[r]).status = 500
         /\ Get(resp[r]).ext.api = Some(<<"ApiError">> \o FullChain)
         /\ (pc[r] = "recorded" =>
               Get(span[r]).exception_details = Some(FullDump))
    /\ (req[r].path = "/error/opaque" /\ Answered(r)) =>
         /\ Get(resp[r]).status = 500
         /\ Get(resp[r]).ext.opaque = Some(<<"OpaqueApiError">> \o FullChain)

C2_Witness ==
  \E r \in Reqs :
    /\ req[r].path = "/error"
    /\ pc[r] = "recorded"
    /\ Contains(Get(Get(span[r]).exception_details), "Dinosaurs Mating")

ExpectedOutcome(code) ==
  IF code \in 200..299 \/ code \in 400..499 THEN "OK" ELSE "ERROR"

\* C3: after the completion hook, http.status_code holds the response's
\* numeric status and otel.status_code is OK for 2xx and 4xx, ERROR for 5xx
\* and for every other code.
C3_StatusClassification ==
  \A r \in Reqs :
    pc[r] = "recorded" =>
      /\ Get(span[r]).http_status_code = Some(Get(resp[r]).status)
      /\ Get(span[r]).otel_status_code = Some(ExpectedOutcome(Get(resp[r]).status))

C3_Witness ==
  \E r \in Reqs :
    /\ pc[r] = "recorded"
    /\ Get(resp[r]).status = 101
    /\ Get(span[r]).http_status_code = Some(101)
    /\ Get(span[r]).otel_status_code = Some("ERROR")

\* The response is the one the router of main renders for the request.
FromRouter(r) ==
  /\ Get(resp[r]).status = Router(req[r]).status
  /\ Get(resp[r]).body = Router(req[r]).body
  /\ Get(resp[r]).ext = Router(req[r]).ext

\* C4 as claimed, on the responses of the program's own handlers: after the
\* completion hook, exception.message is the empty string only when the
\* status is 2xx.
C4_EmptyOnlyFor2xx ==
  \A r \in Reqs :
    (pc[r] = "recorded" /\ FromRouter(r)
       /\ Get(span[r]).exception_message = Some(<<>>)) =>
      Get(resp[r]).status \in 200..299

\* C4 as amended: after the completion hook (responses without the opaque
\* kind), exception.message is empty exactly when the status is 2xx, or is
\* 4xx/5xx and the response carries no error; with an ApiError attached a
\* 4xx/5xx gives its display string, and any other code gives
\* "Unexpected Error".
C4_EmptyWithoutError ==
  \A r \in Reqs :
    (pc[r] = "recorded" /\ Get(resp[r]).ext.opaque = None) =>
      LET code == Get(resp[r]).status
          msg == Get(span[r]).exception_message
          bare == Get(resp[r]).ext.api = None
      IN  /\ (msg = Some(<<>>)) <=>
               (code \in 200..299 \/ (code \in 400..599 /\ bare))
          /\ (code \in 400..599 /\ ~bare) => msg = Some(<<"Route Level Error">>)
          /\ (code \notin 200..299 /\ code \notin 400..599) =>
               msg = Some(<<"Unexpected Error">>)

C4_Witness ==
  \E r \in Reqs :
    /\ pc[r] = "recorded"
    /\ req[r].path = "/nope"
    /\ Get(resp[r]) = [fallback("/nope") EXCEPT !.hdr = req[r].hdr, !.rid = req[r].hdr]
    /\ Get(span[r]).exception_message = Some(<<>>)

CausedByCount(text) == Cardinality({i \in DOMAIN text : text[i] = "Caused by:\n\t"})

\* The piece written after each "Caused by:\n\t", in order.
RECURSIVE Entries(_)
Entries(text) ==
  IF text = <<>> THEN <<>>
  ELSE IF Head(text) = "Caused by:\n\t" /\ Len(text) >= 2
    THEN <<text[2]>> \o Entries(Tail(Tail(text)))
    ELSE Entries(Tail(text))

\* C5: after N layer-wraps the outermost error's dump has exactly N+1
\* "Caused by:" entries.
C5_CountIsWrapsPlusOne ==
  NumWraps >= 1 => CausedByCount(dump) = NumWraps + 1

\* What the code does (C5): when the outermost layer is MiddleError, TopError
\* or ApiError the dump has exactly N+1 entries, one per cause below the
\* outermost error, ending with the primitive failure's two (BadError, then
\* its io::Error source), outermost first and root cause last; when the
\* outermost layer is BottomError the dump is the single line
\* "Unexpected: ..." with no "Caused by:" entry.
C5_ChainBelowOutermost ==
  NumWraps >= 1 =>
    IF Head(wrapped) = "BottomError"
      THEN /\ CausedByCount(dump) = 0
           /\ dump = <<"Unexpected: ", Display(wrapped[2])>>
      ELSE /\ CausedByCount(dump) = NumWraps + 1
           /\ Entries(dump) = [i \in 1..(NumWraps + 1) |-> Display(wrapped[i + 1])]
           /\ Entries(dump)[NumWraps] = "Terrible IO Error - Server is legit on fire"
           /\ Entries(dump)[NumWraps + 1] = "Dinosaurs Mating"

\* C6 as claimed: the response to GET /error has status 500 and its body
\* begins with "500 Internal Server Error: Top Level Error".
C6_BodyBeginsTopLevel ==
  \A r \in Reqs :
    (req[r].path = "/error" /\ Answered(r)) =>
      /\ Get(resp[r]).status = 500
      /\ Len(Get(resp[r]).body) >= 3
      /\ SubSeq(Get(resp[r]).body, 1, 3) =
           <<"500 Internal Server Error", ": ", "Top Level Error">>

\* C6 as amended: the response to GET /error has status 500 and its body is
\* the status line, ": ", the display string of the ApiError, which is
\* "Route Level Error", a blank line, and the chain dump, whose first entry is
\* "Top Level Error".
C6_BodyBeginsRouteLevel ==
  \A r \in Reqs :
    (req[r].path = "/error" /\ Answered(r)) =>
      /\ Get(resp[r]).status = 500
      /\ Get(resp[r]).body =
           <<"500 Internal Server Error", ": ", "Route Level Error", "\n\n">> \o FullDump
      /\ FullDump[2] = "Top Level Error"

C6_Witness ==
  \E r \in Reqs :
    /\ req[r].path = "/error"
    /\ pc[r] = "recorded"
    /\ Get(resp[r]).body[3] = "Route Level Error"
    /\ Get(resp[r]).body[6] = "Top Level Error"

PrimitiveTexts == {"Terrible IO Error - Server is legit on fire", "Dinosaurs Mating"}
CauseTexts == {"Top Level Error", "Mid-Level Error", "Bottom Level Error"} \cup PrimitiveTexts

\* C7: for the opaque kind no piece of the response body is the text of a
\* cause of the chain, while the error attached to the response still holds
\* the primitive failure (BadError and its io::Error), and the completion
\* hook records the primitive failure's text in exception.details.
C7_OpaqueNonLeakage ==
  \A r \in Reqs :
    (req[r].path = "/error/opaque" /\ Answered(r)) =>
      /\ \A t \in CauseTexts : ~Contains(Get(resp[r]).body, t)
      /\ IsSome(Get(resp[r]).ext.opaque)
      /\ {"BadError", "IoError"} \subseteq
           {Get(Get(resp[r]).ext.opaque)[i] : i \in DOMAIN Get(Get(resp[r]).ext.opaque)}
      /\ (pc[r] = "recorded" =>
            \A t \in PrimitiveTexts : Contains(Get(Get(span[r]).exception_details), t))

C7_Witness ==
  \E r \in Reqs :
    /\ req[r].path = "/error/opaque"
    /\ pc[r] = "recorded"
    /\ Get(span[r]).otel_status_code = Some("ERROR")
    /\ Contains(Get(Get(span[r]).exception_details),
                "Terrible IO Error - Server is legit on fire")

C9_MalformedRegenerated ==
  \A r \in Reqs :
    (Entered(r) /\ (inHdr[r] = None \/ Malformed(inHdr[r]))) =>
      /\ pc[r] # "failed"
      /\ IsSome(genId[r])
      /\ req[r].hdr = Some(Hyphenated(Get(genId[r])))

\* C9 as amended: no request is failed by the stack, and the response that
\* leaves it is the handler's, with only the header added. A missing header is
\* replaced by a generated identifier; a malformed one (present, not readable
\* as a string) is not replaced: it stays on the request, comes back on the
\* response, and the span's request_id is the empty string.
C9_NeverFailed ==
  \A r \in Reqs :
    /\ pc[r] # "failed"
    /\ pc[r] \in {"propagated", "recorded"} => FromRouter(r)
    /\ (Entered(r) /\ inHdr[r] = None) =>
         /\ IsSome(genId[r])
         /\ req[r].hdr = Some(Hyphenated(Get(genId[r])))
    /\ (Entered(r) /\ Malformed(inHdr[r])) =>
         /\ genId[r] = None
         /\ req[r].hdr = inHdr[r]
         /\ (IsSome(span[r]) => Get(span[r]).request_id = <<>>)
         /\ (pc[r] \in {"propagated", "recorded"} => Get(resp[r]).hdr = inHdr[r])

C9_Witness ==
  \E r \in Reqs :
    /\ pc[r] = "recorded"
    /\ inHdr[r] = Some(OpaqueBytesHeader)
    /\ Get(resp[r]).hdr = Some(OpaqueBytesHeader)
    /\ Get(span[r]).request_id = <<>>

CompletionFields ==
  {"http.status_code", "otel.status_code", "exception.message", "exception.details"}

\* C10: a span exists only for a request that already has its RequestId (and
\* shows it as request_id when it is readable); from span open until the
\* response is ready nothing is recorded and both exception fields are
\* unset; after the completion hook each of the four completion fields has
\* been recorded exactly once and is set.
C10_Lifecycle ==
  \A r \in Reqs :
    /\ pc[r] \in {"idle", "id_set"} => span[r] = None
    /\ IsSome(span[r]) =>
         /\ IsSome(req[r].rid)
         /\ (ToStrOk(Get(req[r].rid)) => Get(span[r]).request_id = Get(req[r].rid))
    /\ pc[r] \in {"span_open", "handled", "propagated"} =>
         /\ Get(span[r]).exception_message = None
         /\ Get(span[r]).exception_details = None
         /\ \A f \in CompletionFields : Get(span[r]).recs[f] = 0
    /\ pc[r] = "recorded" =>
         /\ \A f \in CompletionFields : Get(span[r]).recs[f] = 1
         /\ IsSome(Get(span[r]).http_status_code)
         /\ IsSome(Get(span[r]).otel_status_code)
         /\ IsSome(Get(span[r]).exception_message)
         /\ IsSome(Get(span[r]).exception_details)

C10_Witness ==
  \E r \in Reqs :
    /\ pc[r] = "recorded"
    /\ Get(resp[r]).status = 304
    /\ \A f \in CompletionFields : Get(span[r]).recs[f] = 1

====
